---- MODULE Spec2Model ----
(***************************************************************************)
(* A model of dobbi's pipeline builders (src/dobbi/job.py): CleanJob,      *)
(* ReplaceJob and CollectionJob.  A text is a sequence of characters, a    *)
(* builder is its step list self.f, and every public method is one action. *)
(***************************************************************************)
EXTENDS Integers, Sequences, FiniteSets, TLC

(* ------------------------------------------------------------------------ *)
(* Bounds of the exploration                                                *)
(* ------------------------------------------------------------------------ *)
\* calls made on the one builder (chain, execute, batch_execute, function)
MaxCalls == 3
\* length of the list handed to batch_execute
MaxBatch == 2

(* ------------------------------------------------------------------------ *)
(* Characters                                                               *)
(* ------------------------------------------------------------------------ *)
TAB == "\t"
NL == "\n"
CR == "\r"
FF == "\f"
VT == "\\v"
SP == " "
\* the double quote and the backtick, which a TLA+ string cannot hold
DQ == "dquote"
BT == "backtick"

LowerLetters ==
  << "a", "b", "c", "d", "e", "f", "g", "h", "i", "j", "k", "l", "m",
     "n", "o", "p", "q", "r", "s", "t", "u", "v", "w", "x", "y", "z" >>
UpperLetters ==
  << "A", "B", "C", "D", "E", "F", "G", "H", "I", "J", "K", "L", "M",
     "N", "O", "P", "Q", "R", "S", "T", "U", "V", "W", "X", "Y", "Z" >>
DigitChars == << "0", "1", "2", "3", "4", "5", "6", "7", "8", "9" >>

Range(q) == { q[i] : i \in DOMAIN q }

\* \w of the re module
WordChars == Range(LowerLetters) \cup Range(UpperLetters) \cup Range(DigitChars) \cup {"_"}
\* \s of the re module, and the separators of str.split()
SpaceChars == {SP, TAB, NL, CR, VT, FF}
\* the list ['\t', '\n', '\r', '\v', '\f'] of the whitespace steps
ControlChars == << TAB, NL, CR, VT, FF >>
\* the argument of str.maketrans in CleanJob.punctuation
AsciiPunctuation ==
  { "!", "\\", DQ, "#", "$", "%", "&", "'", "(", ")", "*", "+", ",", "-", ".", "/",
    ":", ";", "<", "=", ">", "?", "@", "[", "]", "^", "_", BT, "{", "|", "}", "~" }

(* ------------------------------------------------------------------------ *)
(* Values: a str, or a non-string (an int)                                  *)
(* ------------------------------------------------------------------------ *)
StrVal(s) == [t |-> "str", n |-> 0, s |-> s]
IntVal(n) == [t |-> "int", n |-> n, s |-> << >>]
IsStr(v) == v.t = "str"

RECURSIVE Digits(_)
Digits(n) == IF n < 10 THEN << DigitChars[n + 1] >>
             ELSE Digits(n \div 10) \o << DigitChars[(n % 10) + 1] >>

\* str(x)
Str(v) == IF IsStr(v) THEN v.s ELSE IF v.n < 0 THEN << "-" >> \o Digits(0 - v.n) ELSE Digits(v.n)

(* ------------------------------------------------------------------------ *)
(* Outcomes of a call: a returned value or a raised exception               *)
(* ------------------------------------------------------------------------ *)
Ok(v) == [st |-> "ok", err |-> "", val |-> v]
Raise(e) == [st |-> "raise", err |-> e, val |-> << >>]

(* ------------------------------------------------------------------------ *)
(* str methods                                                              *)
(* ------------------------------------------------------------------------ *)
\* the least element of a non-empty set of positions
Least(P) == CHOOSE i \in P : \A j \in P : i <= j

\* s without its leading whitespace
SkipSpace(s) ==
  LET P == { i \in DOMAIN s : s[i] \notin SpaceChars }
  IN IF P = {} THEN << >> ELSE SubSeq(s, Least(P), Len(s))

\* the characters of s before its first whitespace
TakeWord(s) ==
  LET P == { i \in DOMAIN s : s[i] \in SpaceChars }
  IN IF P = {} THEN s ELSE SubSeq(s, 1, Least(P) - 1)

\* x.split()
RECURSIVE Split(_)
Split(s) ==
  LET r == SkipSpace(s)
      w == TakeWord(r)
  IN IF r = << >> THEN << >>
     ELSE << w >> \o Split(SubSeq(r, Len(w) + 1, Len(r)))

\* ' '.join(words)
RECURSIVE Join(_)
Join(ws) == IF ws = << >> THEN << >>
            ELSE IF Len(ws) = 1 THEN ws[1]
            ELSE ws[1] \o << SP >> \o Join(Tail(ws))

\* a variant of Collapse: re.sub(r'\s+', ' ', x), which does not trim the ends
CollapseKeepEnds(s) ==
  (IF s # << >> /\ Head(s) \in SpaceChars THEN << SP >> ELSE << >>)
  \o Join(Split(s))
  \o (IF Split(s) # << >> /\ s[Len(s)] \in SpaceChars THEN << SP >> ELSE << >>)

\* lambda x: ' '.join(x.split())
Collapse(s) == Join(Split(s))

LowerChar(c) ==
  IF \E i \in DOMAIN UpperLetters : UpperLetters[i] = c
  THEN LowerLetters[CHOOSE i \in DOMAIN UpperLetters : UpperLetters[i] = c]
  ELSE c

\* a variant of Lower: lambda x: x.swapcase()
SwapCase(s) ==
  [i \in DOMAIN s |->
     IF \E n \in DOMAIN LowerLetters : LowerLetters[n] = s[i]
     THEN UpperLetters[CHOOSE n \in DOMAIN LowerLetters : LowerLetters[n] = s[i]]
     ELSE LowerChar(s[i])]

\* lambda x: x.lower()
Lower(s) == [i \in DOMAIN s |-> LowerChar(s[i])]

HasPrefix(s, i, p) == i + Len(p) - 1 <= Len(s) /\ SubSeq(s, i, i + Len(p) - 1) = p

\* the position of the leftmost occurrence of key in s at or after i, 0 if none
FirstLit(s, key, i) ==
  LET P == { j \in i..Len(s) : HasPrefix(s, j, key) }
  IN IF P = {} THEN 0 ELSE Least(P)

\* s_.replace(key, rep) and re.sub(key, rep, s_) for a literal key, from position i
RECURSIVE ReplaceLit(_, _, _, _)
ReplaceLit(s, key, rep, i) ==
  LET j == FirstLit(s, key, i)
  IN IF j = 0 THEN SubSeq(s, i, Len(s))
     ELSE SubSeq(s, i, j - 1) \o rep \o ReplaceLit(s, key, rep, j + Len(key))

\* s_.count(key) and len(re.findall(key, s_)) for a literal key, from position i
RECURSIVE CountLit(_, _, _)
CountLit(s, key, i) ==
  LET j == FirstLit(s, key, i)
  IN IF j = 0 THEN 0 ELSE 1 + CountLit(s, key, j + Len(key))

\* s_.replace(ch, rep) for a single character ch
ReplaceChar(s, ch, rep) == ReplaceLit(s, << ch >>, rep, 1)

\* s_.translate(str.maketrans('', '', chars))
DeleteChars(s, chars) == SelectSeq(s, LAMBDA c : c \notin chars)

(* ------------------------------------------------------------------------ *)
(* Regular expressions of the steps                                         *)
(* ------------------------------------------------------------------------ *)
HTTP == << "h", "t", "t", "p", ":", "/", "/" >>
HTTPS == << "h", "t", "t", "p", "s", ":", "/", "/" >>

\* the custom patterns handed to regexp(): two character classes and one
\* pattern that re cannot compile
CustomPatterns == { "a", "[ab]", "(" }
PatValid(p) == p # "("
PatClass(p) == IF p = "a" THEN {"a"} ELSE IF p = "[ab]" THEN {"a", "b"} ELSE {}

InClass(c, cls) == IF cls = "w" THEN c \in WordChars ELSE c \notin SpaceChars

\* length of the longest run of cls characters of s starting at position i
RECURSIVE SpanLen(_, _, _)
SpanLen(s, i, cls) ==
  IF i > Len(s) \/ ~InClass(s[i], cls) THEN 0 ELSE 1 + SpanLen(s, i + 1, cls)

\* length of the match of <.*?> at position i whose '<' is at i and whose
\* scan has reached position j; 0 if there is none ('.' excludes newline)
RECURSIVE HtmlLen(_, _, _)
HtmlLen(s, i, j) ==
  IF j > Len(s) \/ s[j] = NL THEN 0
  ELSE IF s[j] = ">" THEN j - i + 1
  ELSE HtmlLen(s, i, j + 1)

\* length of the match of the step's pattern at position i of s, 0 if none
MatchLen(op, pat, s, i) ==
  CASE op = "url" ->
         LET k == IF HasPrefix(s, i, HTTPS) THEN Len(HTTPS)
                  ELSE IF HasPrefix(s, i, HTTP) THEN Len(HTTP) ELSE 0
             n == SpanLen(s, i + k, "S")
         IN IF k > 0 /\ n > 0 THEN k + n ELSE 0
    [] op = "nickname" ->
         IF s[i] = "@" /\ SpanLen(s, i + 1, "w") > 0 THEN 1 + SpanLen(s, i + 1, "w") ELSE 0
    [] op = "hashtag" ->
         IF s[i] = "#" /\ SpanLen(s, i + 1, "w") > 0 THEN 1 + SpanLen(s, i + 1, "w") ELSE 0
    [] op = "html" ->
         IF s[i] = "<" THEN HtmlLen(s, i, i + 1) ELSE 0
    [] op = "punctuation" ->
         IF s[i] \notin WordChars /\ s[i] \notin SpaceChars THEN 1 ELSE 0
    [] op = "regexp" ->
         IF s[i] \in PatClass(pat) THEN 1 ELSE 0

\* the position of the leftmost match of the pattern in s at or after i, 0 if none
FirstMatch(op, pat, s, i) ==
  LET P == { j \in i..Len(s) : MatchLen(op, pat, s, j) > 0 }
  IN IF P = {} THEN 0 ELSE Least(P)

\* re.sub(pattern, rep, s), scanning from position i
RECURSIVE ReSub(_, _, _, _, _)
ReSub(op, pat, rep, s, i) ==
  LET j == FirstMatch(op, pat, s, i)
  IN IF j = 0 THEN SubSeq(s, i, Len(s))
     ELSE SubSeq(s, i, j - 1) \o rep \o ReSub(op, pat, rep, s, j + MatchLen(op, pat, s, j))

\* re.findall(pattern, s), scanning from position i
RECURSIVE FindAll(_, _, _, _)
FindAll(op, pat, s, i) ==
  LET j == FirstMatch(op, pat, s, i)
  IN IF j = 0 THEN << >>
     ELSE << SubSeq(s, j, j + MatchLen(op, pat, s, j) - 1) >>
          \o FindAll(op, pat, s, j + MatchLen(op, pat, s, j))

\* the loop of the whitespace steps over ['\t', '\n', '\r', '\v', '\f']
RECURSIVE WhitespaceLoop(_, _, _)
WhitespaceLoop(s, chs, rep) ==
  IF chs = << >> THEN s
  ELSE WhitespaceLoop(IF Head(chs) \in Range(s) THEN ReplaceChar(s, Head(chs), rep) ELSE s,
                      Tail(chs), rep)

\* Counter(matches)
Counter(matches) ==
  [k \in Range(matches) |-> Cardinality({ i \in DOMAIN matches : matches[i] = k })]

(* ------------------------------------------------------------------------ *)
(* The pattern tables of dobbi.collections                                  *)
(* ------------------------------------------------------------------------ *)
\* two code points that are neither word characters nor whitespace: the
\* thumbs-up sign and the light skin tone modifier that may follow it
THUMBS_UP == "U+1F44D"
LIGHT_SKIN_TONE == "U+1F3FB"

TOKEN_EMOTICON_HAPPY ==
  << "T", "O", "K", "E", "N", "_", "E", "M", "O", "T", "I", "C", "O", "N", "_", "H", "A", "P", "P", "Y",
     "_", "F", "A", "C", "E", "_", "O", "R", "_", "S", "M", "I", "L", "E", "Y" >>
TOKEN_EMOTICON_LAUGHING ==
  << "T", "O", "K", "E", "N", "_", "E", "M", "O", "T", "I", "C", "O", "N", "_", "L", "A", "U", "G", "H",
     "I", "N", "G", "_", "O", "R", "_", "B", "I", "G", "_", "G", "R", "I", "N", "_", "O", "R", "_", "L",
     "A", "U", "G", "H", "_", "W", "I", "T", "H", "_", "G", "L", "A", "S", "S", "E", "S" >>
TOKEN_EMOTICON_VERY_HAPPY ==
  << "T", "O", "K", "E", "N", "_", "E", "M", "O", "T", "I", "C", "O", "N", "_", "V", "E", "R", "Y", "_",
     "H", "A", "P", "P", "Y" >>
TOKEN_EMOJI_THUMBS_UP ==
  << "T", "O", "K", "E", "N", "_", "E", "M", "O", "J", "I", "_", "T", "H", "U", "M", "B", "S", "_", "U",
     "P" >>
TOKEN_EMOJI_THUMBS_UP_LIGHT ==
  << "T", "O", "K", "E", "N", "_", "E", "M", "O", "J", "I", "_", "T", "H", "U", "M", "B", "S", "_", "U",
     "P", "_", "L", "I", "G", "H", "T", "_", "S", "K", "I", "N", "_", "T", "O", "N", "E" >>

\* EMOJI: literal symbol -> label, in declaration order; the first key is a
\* prefix of the second
EMOJI ==
  << [key |-> << THUMBS_UP >>, label |-> TOKEN_EMOJI_THUMBS_UP],
     [key |-> << THUMBS_UP, LIGHT_SKIN_TONE >>, label |-> TOKEN_EMOJI_THUMBS_UP_LIGHT] >>

\* EMOTICONS: regular expression -> label, in declaration order.  Every key
\* is the escaped form of a literal (r':\)', r'=\)', r':D', r':\)\)'), held
\* here as the literal it matches; two keys share a label, and the first key
\* is a prefix of the last
EMOTICONS ==
  << [key |-> << ":", ")" >>, label |-> TOKEN_EMOTICON_HAPPY],
     [key |-> << "=", ")" >>, label |-> TOKEN_EMOTICON_HAPPY],
     [key |-> << ":", "D" >>, label |-> TOKEN_EMOTICON_LAUGHING],
     [key |-> << ":", ")", ")" >>, label |-> TOKEN_EMOTICON_VERY_HAPPY] >>

\* reversed(list(table.keys()))
Reversed(q) == [i \in 1..Len(q) |-> q[Len(q) + 1 - i]]

\* for e in entries: s_ = s_.replace(e, ' ')
RECURSIVE BlankLoop(_, _)
BlankLoop(entries, s) ==
  IF entries = << >> THEN s
  ELSE BlankLoop(Tail(entries), ReplaceLit(s, Head(entries).key, << SP >>, 1))

\* for e in entries: s_ = s_.replace(e, ' ' + table[e] + ' ')
RECURSIVE TokenLoop(_, _)
TokenLoop(entries, s) ==
  IF entries = << >> THEN s
  ELSE TokenLoop(Tail(entries),
                 ReplaceLit(s, Head(entries).key, << SP >> \o Head(entries).label \o << SP >>, 1))

\* c[label] = number
SetCount(c, label, number) ==
  [k \in DOMAIN c \cup {label} |-> IF k = label THEN number ELSE c[k]]

\* the loop of the collect emoji/emoticon steps: c[table[e]] = number when
\* the number of occurrences of e is positive, in declaration order
RECURSIVE CountLoop(_, _, _)
CountLoop(entries, s, c) ==
  IF entries = << >> THEN c
  ELSE LET number == CountLit(s, Head(entries).key, 1)
       IN CountLoop(Tail(entries), s,
                    IF number > 0 THEN SetCount(c, Head(entries).label, number) ELSE c)

\* CleanJob._emoji
Clean_emoji(s) == BlankLoop(Reversed(EMOJI), s)

\* a variant of Clean_emoticon: re.sub(e, '', s_)
RECURSIVE DeleteLoop(_, _)
DeleteLoop(entries, s) ==
  IF entries = << >> THEN s
  ELSE DeleteLoop(Tail(entries), ReplaceLit(s, Head(entries).key, << >>, 1))
Clean_emoticonNoGap(s) == DeleteLoop(Reversed(EMOTICONS), s)

\* CleanJob._emoticon
Clean_emoticon(s) == BlankLoop(Reversed(EMOTICONS), s)

\* ReplaceJob._emoji
Replace_emoji(s) == TokenLoop(Reversed(EMOJI), s)

\* a variant of Replace_emoticon: token = EMOTICONS[e]
RECURSIVE LabelLoop(_, _)
LabelLoop(entries, s) ==
  IF entries = << >> THEN s
  ELSE LabelLoop(Tail(entries), ReplaceLit(s, Head(entries).key, Head(entries).label, 1))
Replace_emoticonUnpadded(s) == LabelLoop(Reversed(EMOTICONS), s)

\* a variant of Replace_emoticon: for e in EMOTICONS, in declaration order
Replace_emoticonForward(s) == TokenLoop(EMOTICONS, s)

\* ReplaceJob._emoticon
Replace_emoticon(s) == TokenLoop(Reversed(EMOTICONS), s)

\* CollectionJob._emoji
Collect_emoji(s) == CountLoop(EMOJI, s, << >>)

\* the text CollectionJob._emoticon counts in: URLs and emojis blanked out
\* as the flags ask
Masked(ignore_emoji, ignore_url, s) ==
  LET s1 == IF ignore_url THEN ReSub("url", "", << SP >>, s, 1) ELSE s
  IN IF ignore_emoji THEN BlankLoop(Reversed(EMOJI), s1) ELSE s1

\* CollectionJob._emoticon
Collect_emoticon(ignore_emoji, ignore_url, s) ==
  CountLoop(EMOTICONS, Masked(ignore_emoji, ignore_url, s), << >>)

(* ------------------------------------------------------------------------ *)
(* Steps: the closures the builders append to self.f                        *)
(* ------------------------------------------------------------------------ *)
Step(op, pat, rep) == [op |-> op, pat |-> pat, rep |-> rep]

\* lambda x: ' '.join(x.split())  and  lambda x: x.lower()
CollapseStep == Step("collapse", "", << >>)
LowerStep == Step("lower", "", << >>)

RegexOps == {"url", "nickname", "hashtag", "html"}

TOKEN_CUSTOM == << "T", "O", "K", "E", "N", "_", "C", "U", "S", "T", "O", "M" >>
TOKEN_URL == << "T", "O", "K", "E", "N", "_", "U", "R", "L" >>
TOKEN_NICKNAME == << "T", "O", "K", "E", "N", "_", "N", "I", "C", "K", "N", "A", "M", "E" >>
TOKEN_HASHTAG == << "T", "O", "K", "E", "N", "_", "H", "A", "S", "H", "T", "A", "G" >>
TOKEN_HTML == << "T", "O", "K", "E", "N", "_", "H", "T", "M", "L" >>

\* the default of the replacement parameter of ReplaceJob's chain methods
DefaultToken(op) ==
  CASE op = "regexp" -> TOKEN_CUSTOM
    [] op = "url" -> TOKEN_URL
    [] op = "nickname" -> TOKEN_NICKNAME
    [] op = "hashtag" -> TOKEN_HASHTAG
    [] op = "html" -> TOKEN_HTML
    [] op = "punctuation" -> << SP >>
    [] op = "whitespace" -> << SP >>

\* a step of CleanJob applied to the str s
CleanStep(st, s) ==
  CASE st.op = "collapse" -> Ok(StrVal(Collapse(s)))
    [] st.op = "lower" -> Ok(StrVal(Lower(s)))
    [] st.op = "regexp" ->
         IF PatValid(st.pat) THEN Ok(StrVal(ReSub("regexp", st.pat, << >>, s, 1)))
         ELSE Raise("re.error")
    [] st.op \in RegexOps -> Ok(StrVal(ReSub(st.op, "", << >>, s, 1)))
    [] st.op = "punctuation" -> Ok(StrVal(DeleteChars(s, AsciiPunctuation)))
    [] st.op = "whitespace" -> Ok(StrVal(WhitespaceLoop(s, ControlChars, << SP >>)))
    [] st.op = "emoji" -> Ok(StrVal(Clean_emoji(s)))
    [] st.op = "emoticon" -> Ok(StrVal(Clean_emoticon(s)))

\* a step of ReplaceJob applied to the value v, which is not converted
ReplaceStep(st, v) ==
  CASE st.op = "collapse" ->
         IF IsStr(v) THEN Ok(StrVal(Collapse(v.s))) ELSE Raise("AttributeError")
    [] st.op = "lower" ->
         IF IsStr(v) THEN Ok(StrVal(Lower(v.s))) ELSE Raise("AttributeError")
    [] st.op = "regexp" ->
         IF ~PatValid(st.pat) THEN Raise("re.error")
         ELSE IF ~IsStr(v) THEN Raise("TypeError")
         ELSE Ok(StrVal(ReSub("regexp", st.pat, st.rep, v.s, 1)))
    [] st.op \in RegexOps \cup {"punctuation"} ->
         IF IsStr(v) THEN Ok(StrVal(ReSub(st.op, "", st.rep, v.s, 1))) ELSE Raise("TypeError")
    [] st.op = "whitespace" ->
         IF IsStr(v) THEN Ok(StrVal(WhitespaceLoop(v.s, ControlChars, st.rep)))
         ELSE Raise("TypeError")
    [] st.op = "emoji" ->
         IF IsStr(v) THEN Ok(StrVal(Replace_emoji(v.s))) ELSE Raise("AttributeError")
    [] st.op = "emoticon" ->
         IF IsStr(v) THEN Ok(StrVal(Replace_emoticon(v.s))) ELSE Raise("TypeError")

\* the Counter of CollectionJob.whitespace
WhitespaceCounter(s) ==
  [k \in { << ch >> : ch \in Range(ControlChars) \cap Range(s) } |->
     Cardinality({ i \in DOMAIN s : s[i] = k[1] })]

\* a step of CollectionJob applied to the value v: the pair (tag, counter)
CollectStep(st, v) ==
  CASE st.op = "regexp" ->
         IF ~PatValid(st.pat) THEN Raise("re.error")
         ELSE IF ~IsStr(v) THEN Raise("TypeError")
         ELSE Ok(<< "regexp", Counter(FindAll("regexp", st.pat, v.s, 1)) >>)
    [] st.op \in RegexOps \cup {"punctuation"} ->
         IF IsStr(v) THEN Ok(<< st.op, Counter(FindAll(st.op, "", v.s, 1)) >>)
         ELSE Raise("TypeError")
    [] st.op = "whitespace" ->
         IF IsStr(v) THEN Ok(<< "whitespace", WhitespaceCounter(v.s) >>)
         ELSE Raise("TypeError")
    [] st.op = "emoji" ->
         IF IsStr(v) THEN Ok(<< "emoji", Collect_emoji(v.s) >>) ELSE Raise("AttributeError")
    [] st.op = "emoticon" ->
         IF IsStr(v)
         THEN Ok(<< "emoticon",
                    Collect_emoticon("ignore_emoji" \in Range(st.rep), "ignore_url" \in Range(st.rep), v.s) >>)
         ELSE IF "ignore_url" \in Range(st.rep) THEN Raise("TypeError")
         ELSE IF "ignore_emoji" \in Range(st.rep) THEN Raise("AttributeError")
         ELSE Raise("TypeError")

(* ------------------------------------------------------------------------ *)
(* The loops of the finalize calls                                          *)
(* ------------------------------------------------------------------------ *)
\* a variant of RunClean: for func in reversed(self.f)
RECURSIVE RunCleanReversed(_, _)
RunCleanReversed(fs, v) ==
  IF fs = << >> THEN Ok(v)
  ELSE LET r == CleanStep(fs[Len(fs)], Str(v))
       IN IF r.st = "raise" THEN r ELSE RunCleanReversed(SubSeq(fs, 1, Len(fs) - 1), r.val)

\* CleanJob: for func in self.f: string = func(str(string))
RECURSIVE RunClean(_, _)
RunClean(fs, v) ==
  IF fs = << >> THEN Ok(v)
  ELSE LET r == CleanStep(Head(fs), Str(v))
       IN IF r.st = "raise" THEN r ELSE RunClean(Tail(fs), r.val)

\* ReplaceJob: for func in self.f: string = func(string)
RECURSIVE RunReplace(_, _)
RunReplace(fs, v) ==
  IF fs = << >> THEN Ok(v)
  ELSE LET r == ReplaceStep(Head(fs), v)
       IN IF r.st = "raise" THEN r ELSE RunReplace(Tail(fs), r.val)

\* a variant of SetTag: the counter is added into result[tag], as in batch_execute
SetTagSummed(result, tag, counter) ==
  LET old == IF tag \in DOMAIN result THEN result[tag] ELSE << >>
      new == [k \in DOMAIN old \cup DOMAIN counter |->
                (IF k \in DOMAIN old THEN old[k] ELSE 0)
                + (IF k \in DOMAIN counter THEN counter[k] ELSE 0)]
  IN [l \in DOMAIN result \cup {tag} |-> IF l = tag THEN new ELSE result[l]]

\* result[tag] = dict(counter)
SetTag(result, tag, counter) ==
  [l \in DOMAIN result \cup {tag} |-> IF l = tag THEN counter ELSE result[l]]

\* a variant of RunCollect: every step sees the text its predecessors have
\* consumed their matches from, as the steps of CleanJob do
RECURSIVE RunCollectPiped(_, _, _)
RunCollectPiped(fs, v, result) ==
  IF fs = << >> THEN Ok(result)
  ELSE LET r == CollectStep(Head(fs), v)
       IN IF r.st = "raise" THEN r
          ELSE RunCollectPiped(Tail(fs), CleanStep(Head(fs), v.s).val,
                               [l \in DOMAIN result \cup {r.val[1]} |->
                                  IF l = r.val[1] THEN r.val[2] ELSE result[l]])

\* CollectionJob.execute: the loop over self.f, result being the dict so far
RECURSIVE RunCollect(_, _, _)
RunCollect(fs, v, result) ==
  IF fs = << >> THEN Ok(result)
  ELSE LET r == CollectStep(Head(fs), v)
       IN IF r.st = "raise" THEN r
          ELSE RunCollect(Tail(fs), v, SetTag(result, r.val[1], r.val[2]))

\* a variant of AddTag: result[tag][k] = v in place of result[tag][k] += v
AddTagOverwrite(result, tag, counter) ==
  LET old == IF tag \in DOMAIN result THEN result[tag] ELSE << >>
      new == [k \in DOMAIN old \cup DOMAIN counter |->
                IF k \in DOMAIN counter THEN counter[k] ELSE old[k]]
  IN [l \in DOMAIN result \cup {tag} |-> IF l = tag THEN new ELSE result[l]]

\* the body of the inner loop of batch_execute: counter added into result[tag]
AddTag(result, tag, counter) ==
  LET old == IF tag \in DOMAIN result THEN result[tag] ELSE << >>
      new == [k \in DOMAIN old \cup DOMAIN counter |->
                (IF k \in DOMAIN old THEN old[k] ELSE 0)
                + (IF k \in DOMAIN counter THEN counter[k] ELSE 0)]
  IN [l \in DOMAIN result \cup {tag} |-> IF l = tag THEN new ELSE result[l]]

\* the inner loop of batch_execute for one string
RECURSIVE RunBatchOne(_, _, _)
RunBatchOne(fs, v, result) ==
  IF fs = << >> THEN Ok(result)
  ELSE LET r == CollectStep(Head(fs), v)
       IN IF r.st = "raise" THEN r
          ELSE RunBatchOne(Tail(fs), v, AddTag(result, r.val[1], r.val[2]))

\* CollectionJob.batch_execute: the outer loop over strings
RECURSIVE RunBatch(_, _, _)
RunBatch(fs, vs, result) ==
  IF vs = << >> THEN Ok(result)
  ELSE LET r == RunBatchOne(fs, Head(vs), result)
       IN IF r.st = "raise" THEN r ELSE RunBatch(fs, Tail(vs), r.val)

\* the _func of CollectionJob.function: the list of the steps' results
RECURSIVE RunCollectFunc(_, _)
RunCollectFunc(fs, v) ==
  IF fs = << >> THEN Ok(<< >>)
  ELSE LET r == CollectStep(Head(fs), v)
           rest == RunCollectFunc(Tail(fs), v)
       IN IF r.st = "raise" THEN r
          ELSE IF rest.st = "raise" THEN rest
          ELSE Ok(<< r.val >> \o rest.val)

(* ------------------------------------------------------------------------ *)
(* Inputs of the calls                                                      *)
(* ------------------------------------------------------------------------ *)
\* ' A\t#b  #b a '
T_WS == << SP, "A", TAB, "#", "b", SP, SP, "#", "b", SP, "a", SP >>
\* 'ab @a<b>http://a'
T_MIX == << "a", "b", SP, "@", "a", "<", "b", ">", "h", "t", "t", "p", ":", "/", "/", "a" >>

Texts == { T_WS, T_MIX }
\* the arguments the signatures ask for: str
StrInputs == { StrVal(s) : s \in Texts }
\* arguments that are not str
NonStrings == { IntVal(10) }
Inputs == StrInputs \cup NonStrings

\* the lists of at most n elements of S
RECURSIVE ListsOf(_, _)
ListsOf(S, n) ==
  IF n = 0 THEN { << >> }
  ELSE LET shorter == ListsOf(S, n - 1)
       IN shorter \cup { Append(l, x) : l \in { m \in shorter : Len(m) = n - 1 }, x \in S }

\* the arguments the compiled function is called with
FuncInputs == { StrVal(T_WS) }

\* ':)word1:Dword2:)', the input of test_clean_emoticons
T_EMO_WORDS ==
  << ":", ")", "w", "o", "r", "d", "1", ":", "D", "w", "o", "r", "d", "2", ":", ")" >>
\* ':) :D :)', the input of test_batch_execute_emoticons
T_EMO_COUNT ==
  << ":", ")", SP, ":", "D", SP, ":", ")" >>
\* 'a:))b =):) http://c:) ' followed by a light-skinned thumbs-up and a thumbs-up
T_EMO_MIX ==
  << "a", ":", ")", ")", "b", SP, "=", ")", ":", ")", SP, "h", "t", "t", "p", ":", "/", "/", "c",
     ":", ")", SP, THUMBS_UP, LIGHT_SKIN_TONE, THUMBS_UP >>
\* the input of example 3 of the package docstring
T_DOC ==
  << TAB, SP, "#", "f", "u", "n", SP, "#", "l", "o", "l", SP, SP, SP, SP, "W", "h", "y", SP, SP,
     "@", "A", "l", "e", "x", "3", "3", SP, "i", "s", SP, "s", "o", ".", ".", ".", SP, "f", "u",
     "n", "n", "y", "?", SP, "<", "t", "a", "g", ">", SP, NL, "C", "h", "e", "c", "k", TAB, "h",
     "e", "r", "e", ":", SP, "h", "t", "t", "p", "s", ":", "/", "/", "s", "o", "m", "e", "-", "u",
     "r", "l", ".", "c", "o", "m" >>
\* 'http://a#b c': a URL that holds a hashtag after other characters
T_URL_TAG ==
  << "h", "t", "t", "p", ":", "/", "/", "a", "#", "b", SP, "c" >>
\* 'http://#b c': a URL that is its scheme and a hashtag
T_URL_ONLY_TAG ==
  << "h", "t", "t", "p", ":", "/", "/", "#", "b", SP, "c" >>

EmoInputs == { StrVal(T_EMO_WORDS), StrVal(T_EMO_COUNT), StrVal(T_EMO_MIX) }
EmoFuncInputs == { StrVal(T_EMO_WORDS) }
DocInputs == { StrVal(T_DOC), StrVal(T_URL_TAG), StrVal(T_URL_ONLY_TAG) }
DocFuncInputs == { StrVal(T_DOC) }

(* ------------------------------------------------------------------------ *)
(* State                                                                    *)
(* ------------------------------------------------------------------------ *)
VARIABLES
  kind,      \* the class of the builder: "clean", "replace" or "collect"
  f,         \* self.f, the step list
  log,       \* history: the calls made on the builder, in order
  res,       \* the last call: its name, its argument and its outcome
  compiled,  \* a _func returned by function() exists
  lastFunc   \* history: the latest call of _func, its argument and its outcome

vars == << kind, f, log, res, compiled, lastFunc >>

Kinds == { "clean", "replace", "collect" }

\* dobbi.clean(), dobbi.replace(), dobbi.collect(), and Job.__init__
Init ==
  /\ kind \in Kinds
  /\ f = << >>
  /\ log = << >>
  /\ res = [call |-> "new", arg |-> << >>, out |-> Ok("self")]
  /\ compiled = FALSE
  /\ lastFunc = [call |-> "none", arg |-> << >>, out |-> Ok("none")]

LogEntry(call, pat, ws, lo) == [call |-> call, pat |-> pat, ws |-> ws, lo |-> lo]

(* ------------------------------------------------------------------------ *)
(* Chain methods                                                            *)
(* ------------------------------------------------------------------------ *)
\* self.f.append(step); return self
Chain(k, st) ==
  /\ kind = k
  /\ Len(log) < MaxCalls
  /\ f' = Append(f, st)
  /\ log' = Append(log, LogEntry(st.op, st.pat, FALSE, FALSE))
  /\ res' = [call |-> st.op, arg |-> << >>, out |-> Ok("self")]
  /\ UNCHANGED << kind, compiled, lastFunc >>

\* a variant of CleanRegexp: the pattern is compiled when the step is added
CleanRegexpEager(p) ==
  IF PatValid(p) THEN Chain("clean", Step("regexp", p, << >>))
  ELSE /\ kind = "clean"
       /\ Len(log) < MaxCalls
       /\ log' = Append(log, LogEntry("regexp", p, FALSE, FALSE))
       /\ res' = [call |-> "regexp", arg |-> << >>, out |-> Raise("re.error")]
       /\ UNCHANGED << kind, f, compiled, lastFunc >>

CleanRegexp(p) == Chain("clean", Step("regexp", p, << >>))
CleanUrl == Chain("clean", Step("url", "", << >>))
CleanNickname == Chain("clean", Step("nickname", "", << >>))
CleanHashtag == Chain("clean", Step("hashtag", "", << >>))
CleanPunctuation == Chain("clean", Step("punctuation", "", << >>))
CleanWhitespace == Chain("clean", Step("whitespace", "", << >>))
CleanHtml == Chain("clean", Step("html", "", << >>))

ReplaceRegexp(p) == Chain("replace", Step("regexp", p, DefaultToken("regexp")))
ReplaceUrl == Chain("replace", Step("url", "", DefaultToken("url")))
ReplaceNickname == Chain("replace", Step("nickname", "", DefaultToken("nickname")))
ReplaceHashtag == Chain("replace", Step("hashtag", "", DefaultToken("hashtag")))
\* a variant of ReplacePunctuation: replacement=' TOKEN_PUNCTUATION '
ReplacePunctuationToken ==
  Chain("replace",
        Step("punctuation", "",
             << SP, "T", "O", "K", "E", "N", "_", "P", "U", "N", "C", "T", "U", "A", "T", "I", "O", "N", SP >>))

ReplacePunctuation == Chain("replace", Step("punctuation", "", DefaultToken("punctuation")))
ReplaceWhitespace == Chain("replace", Step("whitespace", "", DefaultToken("whitespace")))
ReplaceHtml == Chain("replace", Step("html", "", DefaultToken("html")))

CollectRegexp(p) == Chain("collect", Step("regexp", p, << >>))
CollectUrl == Chain("collect", Step("url", "", << >>))
CollectNickname == Chain("collect", Step("nickname", "", << >>))
CollectHashtag == Chain("collect", Step("hashtag", "", << >>))
CollectPunctuation == Chain("collect", Step("punctuation", "", << >>))
CollectWhitespace == Chain("collect", Step("whitespace", "", << >>))
CollectHtml == Chain("collect", Step("html", "", << >>))

CleanEmoji == Chain("clean", Step("emoji", "", << >>))
CleanEmoticon == Chain("clean", Step("emoticon", "", << >>))
ReplaceEmoji == Chain("replace", Step("emoji", "", << >>))
ReplaceEmoticon == Chain("replace", Step("emoticon", "", << >>))
CollectEmoji == Chain("collect", Step("emoji", "", << >>))
\* the step keeps the flags it was made with
CollectEmoticon(ignore_emoji, ignore_url) ==
  Chain("collect", Step("emoticon", "",
                        (IF ignore_emoji THEN << "ignore_emoji" >> ELSE << >>)
                        \o (IF ignore_url THEN << "ignore_url" >> ELSE << >>)))

(* ------------------------------------------------------------------------ *)
(* Finalize calls                                                           *)
(* ------------------------------------------------------------------------ *)
\* if rm_whitespace: self.f.append(collapse); if lower: self.f.append(lower)
Implicit(ws, lo) ==
  (IF ws THEN << CollapseStep >> ELSE << >>) \o (IF lo THEN << LowerStep >> ELSE << >>)

\* a variant of CleanExecute: the lowercase step is appended before the collapse step
CleanExecuteLowerFirst(v, ws, lo) ==
  /\ kind = "clean"
  /\ Len(log) < MaxCalls
  /\ f' = f \o (IF lo THEN << LowerStep >> ELSE << >>) \o (IF ws THEN << CollapseStep >> ELSE << >>)
  /\ log' = Append(log, LogEntry("execute", "", ws, lo))
  /\ res' = [call |-> "execute", arg |-> << v >>, out |-> RunClean(f', v)]
  /\ UNCHANGED << kind, compiled, lastFunc >>

\* a variant of CleanExecute: the implicit steps are kept only if no step raises
CleanExecuteKeepOnSuccess(v, ws, lo) ==
  /\ kind = "clean"
  /\ Len(log) < MaxCalls
  /\ f' = IF RunClean(f \o Implicit(ws, lo), v).st = "raise" THEN f ELSE f \o Implicit(ws, lo)
  /\ log' = Append(log, LogEntry("execute", "", ws, lo))
  /\ res' = [call |-> "execute", arg |-> << v >>, out |-> RunClean(f \o Implicit(ws, lo), v)]
  /\ UNCHANGED << kind, compiled, lastFunc >>

CleanExecute(v, ws, lo) ==
  /\ kind = "clean"
  /\ Len(log) < MaxCalls
  /\ f' = f \o Implicit(ws, lo)
  /\ log' = Append(log, LogEntry("execute", "", ws, lo))
  /\ res' = [call |-> "execute", arg |-> << v >>, out |-> RunClean(f', v)]
  /\ UNCHANGED << kind, compiled, lastFunc >>

ReplaceExecute(v, ws, lo) ==
  /\ kind = "replace"
  /\ Len(log) < MaxCalls
  /\ f' = f \o Implicit(ws, lo)
  /\ log' = Append(log, LogEntry("execute", "", ws, lo))
  /\ res' = [call |-> "execute", arg |-> << v >>, out |-> RunReplace(f', v)]
  /\ UNCHANGED << kind, compiled, lastFunc >>

\* a variant of CollectExecute: the counters are merged into the result as
\* batch_execute merges them
CollectExecuteMerged(v) ==
  /\ kind = "collect"
  /\ Len(log) < MaxCalls
  /\ log' = Append(log, LogEntry("execute", "", FALSE, FALSE))
  /\ res' = [call |-> "execute", arg |-> << v >>, out |-> RunBatch(f, << v >>, << >>)]
  /\ UNCHANGED << kind, f, compiled, lastFunc >>

CollectExecute(v) ==
  /\ kind = "collect"
  /\ Len(log) < MaxCalls
  /\ log' = Append(log, LogEntry("execute", "", FALSE, FALSE))
  /\ res' = [call |-> "execute", arg |-> << v >>, out |-> RunCollect(f, v, << >>)]
  /\ UNCHANGED << kind, f, compiled, lastFunc >>

CollectBatchExecute(vs) ==
  /\ kind = "collect"
  /\ Len(log) < MaxCalls
  /\ log' = Append(log, LogEntry("batch_execute", "", FALSE, FALSE))
  /\ res' = [call |-> "batch_execute", arg |-> vs, out |-> RunBatch(f, vs, << >>)]
  /\ UNCHANGED << kind, f, compiled, lastFunc >>

\* function(): the implicit steps are appended, and _func is returned
CleanFunction(ws, lo) ==
  /\ kind = "clean"
  /\ Len(log) < MaxCalls
  /\ f' = f \o Implicit(ws, lo)
  /\ log' = Append(log, LogEntry("function", "", ws, lo))
  /\ res' = [call |-> "function", arg |-> << >>, out |-> Ok("_func")]
  /\ compiled' = TRUE
  /\ UNCHANGED << kind, lastFunc >>

ReplaceFunction(ws, lo) ==
  /\ kind = "replace"
  /\ Len(log) < MaxCalls
  /\ f' = f \o Implicit(ws, lo)
  /\ log' = Append(log, LogEntry("function", "", ws, lo))
  /\ res' = [call |-> "function", arg |-> << >>, out |-> Ok("_func")]
  /\ compiled' = TRUE
  /\ UNCHANGED << kind, lastFunc >>

CollectFunction ==
  /\ kind = "collect"
  /\ Len(log) < MaxCalls
  /\ log' = Append(log, LogEntry("function", "", FALSE, FALSE))
  /\ res' = [call |-> "function", arg |-> << >>, out |-> Ok("_func")]
  /\ compiled' = TRUE
  /\ UNCHANGED << kind, f, lastFunc >>

\* the closure _func reads self.f when it is called
FuncOut(k, fs, v) ==
  CASE k = "clean" -> RunClean(fs, v)
    [] k = "replace" -> RunReplace(fs, v)
    [] k = "collect" -> RunCollectFunc(fs, v)

\* a call of _func(s_)
Invoke(k, v) ==
  /\ kind = k
  /\ compiled
  /\ res' = [call |-> "_func", arg |-> << v >>, out |-> FuncOut(k, f, v)]
  /\ lastFunc' = res'
  /\ UNCHANGED << kind, f, log, compiled >>

CleanFunc(v) == Invoke("clean", v)
ReplaceFunc(v) == Invoke("replace", v)
CollectFunc(v) == Invoke("collect", v)

\* the calls a caller can make, its arguments drawn from I
NextOn(I) ==
  \/ \E p \in CustomPatterns : CleanRegexp(p)
  \/ CleanUrl
  \/ CleanNickname
  \/ CleanHashtag
  \/ CleanPunctuation
  \/ CleanWhitespace
  \/ CleanHtml
  \/ \E p \in CustomPatterns : ReplaceRegexp(p)
  \/ ReplaceUrl
  \/ ReplaceNickname
  \/ ReplaceHashtag
  \/ ReplacePunctuation
  \/ ReplaceWhitespace
  \/ ReplaceHtml
  \/ \E p \in CustomPatterns : CollectRegexp(p)
  \/ CollectUrl
  \/ CollectNickname
  \/ CollectHashtag
  \/ CollectPunctuation
  \/ CollectWhitespace
  \/ CollectHtml
  \/ \E v \in I, ws \in BOOLEAN, lo \in BOOLEAN : CleanExecute(v, ws, lo)
  \/ \E v \in I, ws \in BOOLEAN, lo \in BOOLEAN : ReplaceExecute(v, ws, lo)
  \/ \E v \in I : CollectExecute(v)
  \/ \E vs \in ListsOf(I, MaxBatch) : CollectBatchExecute(vs)
  \/ \E ws \in BOOLEAN, lo \in BOOLEAN : CleanFunction(ws, lo)
  \/ \E ws \in BOOLEAN, lo \in BOOLEAN : ReplaceFunction(ws, lo)
  \/ CollectFunction
  \/ \E v \in FuncInputs : CleanFunc(v)
  \/ \E v \in FuncInputs : ReplaceFunc(v)
  \/ \E v \in FuncInputs : CollectFunc(v)

\* every argument is a str, as the signatures ask
Next == NextOn(StrInputs)
Spec == Init /\ [][Next]_vars

\* the arguments may also be non-strings
NextAny == NextOn(Inputs)
SpecAny == Init /\ [][NextAny]_vars

\* the emoji and emoticon chain methods
NextTable ==
  \/ CleanEmoji
  \/ CleanEmoticon
  \/ ReplaceEmoji
  \/ ReplaceEmoticon
  \/ CollectEmoji
  \/ \E ignore_emoji \in BOOLEAN, ignore_url \in BOOLEAN : CollectEmoticon(ignore_emoji, ignore_url)

\* every call, the arguments drawn from I and those of _func from FI too
NextWith(I, FI) ==
  \/ NextOn(I)
  \/ NextTable
  \/ \E v \in FI : CleanFunc(v)
  \/ \E v \in FI : ReplaceFunc(v)
  \/ \E v \in FI : CollectFunc(v)

\* texts with emojis and emoticons
NextEmo == NextWith(EmoInputs, EmoFuncInputs)
SpecEmo == Init /\ [][NextEmo]_vars

\* the documented example and URLs that hold hashtags
NextDoc == NextWith(DocInputs, DocFuncInputs)
SpecDoc == Init /\ [][NextDoc]_vars

(* ------------------------------------------------------------------------ *)
(* Vocabulary of the properties                                             *)
(* ------------------------------------------------------------------------ *)
IsText == kind \in {"clean", "replace"}
Returned == res.out.st = "ok"
LastEntry == log[Len(log)]

\* the label under which a collect step files its counter
LabelOf(st) == st.op

RECURSIVE SumSeq(_)
SumSeq(q) == IF q = << >> THEN 0 ELSE Head(q) + SumSeq(Tail(q))

\* the counter one collect step reports for the text v, taken alone
CounterOf(st, v) == CollectStep(st, v).val[2]
CountIn(st, v, k) == IF k \in DOMAIN CounterOf(st, v) THEN CounterOf(st, v)[k] ELSE 0

\* the sum, over the inputs vs and the steps of fs labelled tag, of the count of k
BatchTotal(fs, vs, tag, k) ==
  SumSeq([i \in DOMAIN vs |->
            SumSeq([j \in DOMAIN fs |->
                      IF LabelOf(fs[j]) = tag THEN CountIn(fs[j], vs[i], k) ELSE 0])])

KeysOf(fs, vs, tag) ==
  UNION { DOMAIN CounterOf(fs[j], vs[i]) :
            j \in { j \in DOMAIN fs : LabelOf(fs[j]) = tag }, i \in DOMAIN vs }

SummedCounts(fs, vs) ==
  [tag \in (IF vs = << >> THEN {} ELSE { LabelOf(fs[j]) : j \in DOMAIN fs }) |->
     [k \in KeysOf(fs, vs, tag) |-> BatchTotal(fs, vs, tag, k)]]

Doubled(m) == [tag \in DOMAIN m |-> [k \in DOMAIN m[tag] |-> 2 * m[tag][k]]]

DistinctLabels(fs) ==
  \A i, j \in DOMAIN fs : LabelOf(fs[i]) = LabelOf(fs[j]) => i = j

Orderings(vs) ==
  { [i \in DOMAIN vs |-> vs[q[i]]] :
      q \in { q \in [DOMAIN vs -> DOMAIN vs] : \A i, j \in DOMAIN vs : q[i] = q[j] => i = j } }

(* ------------------------------------------------------------------------ *)
(* Properties                                                               *)
(* ------------------------------------------------------------------------ *)

\* C1: once CleanJob.function / ReplaceJob.function has returned _func, no
\* later call on the builder changes what _func returns for any input.
C1_FrozenAtCompile ==
  [][(IsText /\ compiled) =>
       \A v \in FuncInputs : FuncOut(kind, f', v) = FuncOut(kind, f, v)]_vars

\* C2, as claimed: for every collect builder, batch_execute([s, s]) holds
\* exactly the label/key pairs of execute(s), each with twice the count.
C2_BatchDoubles ==
  (/\ kind = "collect"
   /\ res.call = "batch_execute"
   /\ Returned
   /\ Len(res.arg) = 2
   /\ res.arg[1] = res.arg[2])
  => res.out.val = Doubled(RunCollect(f, res.arg[1], << >>).val)

\* C2, amended: the same, for a collect builder no two steps of which
\* produce the same label.
C2_BatchDoublesDistinctLabels ==
  (/\ kind = "collect"
   /\ res.call = "batch_execute"
   /\ Returned
   /\ Len(res.arg) = 2
   /\ res.arg[1] = res.arg[2]
   /\ DistinctLabels(f))
  => res.out.val = Doubled(RunCollect(f, res.arg[1], << >>).val)

C2_Witness ==
  /\ kind = "collect"
  /\ res.call = "batch_execute"
  /\ Returned
  /\ Len(res.arg) = 2
  /\ res.arg[1] = res.arg[2]
  /\ DistinctLabels(f)
  /\ Len(f) = 2
  /\ \A tag \in DOMAIN res.out.val : \E k \in DOMAIN res.out.val[tag] : res.out.val[tag][k] = 4

\* C3: batch_execute returns, for every label and key, the sum over the
\* inputs and over the steps producing the label of the step's count, and
\* the result is the same for every order of the inputs.
C3_BatchSums ==
  (kind = "collect" /\ res.call = "batch_execute" /\ Returned)
  => /\ res.out.val = SummedCounts(f, res.arg)
     /\ \A p \in Orderings(res.arg) : RunBatch(f, p, << >>) = res.out

C3_Witness ==
  /\ kind = "collect"
  /\ res.call = "batch_execute"
  /\ Returned
  /\ Len(res.arg) = 2
  /\ res.arg[1] # res.arg[2]
  /\ \E i, j \in DOMAIN f : i # j /\ LabelOf(f[i]) = LabelOf(f[j])
  /\ \E tag \in DOMAIN res.out.val : \E k \in DOMAIN res.out.val[tag] : res.out.val[tag][k] >= 5

Coerced(vs) == [i \in DOMAIN vs |-> StrVal(Str(vs[i]))]

SameOutcome(a, b) == a.st = b.st /\ a.err = b.err /\ (a.st = "ok" => a.val = b.val)

FinalizeOut(k, call, fs, vs) ==
  CASE call = "batch_execute" -> RunBatch(fs, vs, << >>)
    [] call = "execute" /\ k = "clean" -> RunClean(fs, vs[1])
    [] call = "execute" /\ k = "replace" -> RunReplace(fs, vs[1])
    [] call = "execute" /\ k = "collect" -> RunCollect(fs, vs[1], << >>)

\* C4: execute and batch_execute given a non-string process str(value) and
\* return what they return for that string, and raise no type error.
C4_NonStringCoerced ==
  (res.call \in {"execute", "batch_execute"} /\ \E i \in DOMAIN res.arg : ~IsStr(res.arg[i]))
  => /\ res.out.err \notin {"TypeError", "AttributeError"}
     /\ SameOutcome(res.out, FinalizeOut(kind, res.call, f, Coerced(res.arg)))

IsLastWith(fs, j) == \A i \in DOMAIN fs : LabelOf(fs[i]) = LabelOf(fs[j]) => i <= j

\* C5: with two steps of one label, execute keeps under the label the later
\* step's count for every match the later step found, and batch_execute
\* holds the sum of both steps' counts for the matches both found.
C5_ExecuteOverwritesBatchSums ==
  /\ (kind = "collect" /\ res.call = "execute" /\ Returned)
     => \A i, j \in DOMAIN f :
          (i < j /\ LabelOf(f[i]) = LabelOf(f[j]) /\ IsLastWith(f, j))
          => \A k \in DOMAIN CounterOf(f[j], res.arg[1]) :
               res.out.val[LabelOf(f[j])][k] = CounterOf(f[j], res.arg[1])[k]
  /\ (kind = "collect" /\ res.call = "batch_execute" /\ Returned)
     => \A i, j \in DOMAIN f :
          (i < j /\ LabelOf(f[i]) = LabelOf(f[j]))
          => \A n \in DOMAIN res.arg :
               \A k \in DOMAIN CounterOf(f[i], res.arg[n]) \cap DOMAIN CounterOf(f[j], res.arg[n]) :
                 res.out.val[LabelOf(f[j])][k] = BatchTotal(f, res.arg, LabelOf(f[j]), k)

C5_Witness ==
  /\ kind = "collect"
  /\ res.call = "execute"
  /\ Returned
  /\ Len(f) = 2
  /\ f[1].op = "regexp" /\ f[2].op = "regexp" /\ f[1].pat # f[2].pat
  /\ \E k \in DOMAIN CounterOf(f[1], res.arg[1]) \cap DOMAIN CounterOf(f[2], res.arg[1]) :
       res.out.val["regexp"][k] = 3

\* C6: a collect builder's execute, batch_execute, function and _func leave
\* the step list as it is, and what a step contributes is the counter it
\* reports for the input text taken alone, whatever steps precede it.
C6_CollectReadsOriginal ==
  [][(kind = "collect" /\ res'.call \in {"execute", "batch_execute", "function", "_func"})
     => /\ f' = f
        /\ (res'.call = "_func" /\ res'.out.st = "ok")
           => /\ Len(res'.out.val) = Len(f)
              /\ \A i \in DOMAIN f :
                   res'.out.val[i] = << LabelOf(f[i]), CounterOf(f[i], res'.arg[1]) >>
        /\ (res'.call = "execute" /\ res'.out.st = "ok")
           => /\ DOMAIN res'.out.val = { LabelOf(f[i]) : i \in DOMAIN f }
              /\ \A j \in DOMAIN f :
                   IsLastWith(f, j) => res'.out.val[LabelOf(f[j])] = CounterOf(f[j], res'.arg[1])
        /\ (res'.call = "batch_execute" /\ res'.out.st = "ok" /\ DistinctLabels(f) /\ Len(res'.arg) = 1)
           => \A j \in DOMAIN f : res'.out.val[LabelOf(f[j])] = CounterOf(f[j], res'.arg[1])]_vars

C6_Witness ==
  /\ kind = "collect"
  /\ res.call = "execute"
  /\ Returned
  /\ Len(f) = 2
  /\ f[1].op = "hashtag" /\ f[2].op = "regexp"
  /\ \E k \in DOMAIN res.out.val["hashtag"] :
       /\ res.out.val["hashtag"][k] = 2
       /\ \E c \in DOMAIN res.out.val["regexp"] : c[1] \in Range(k)

ChainCalls == {"regexp", "url", "nickname", "hashtag", "punctuation", "whitespace", "html"}

AppendsOf(k, e) ==
  IF e.call \in ChainCalls
  THEN << [op |-> e.call, pat |-> e.pat,
           rep |-> IF k = "replace" THEN DefaultToken(e.call) ELSE << >>] >>
  ELSE IF e.call \in {"execute", "function"} /\ k \in {"clean", "replace"}
  THEN (IF e.ws THEN << CollapseStep >> ELSE << >>) \o (IF e.lo THEN << LowerStep >> ELSE << >>)
  ELSE << >>

RECURSIVE Replay(_, _)
Replay(k, lg) == IF lg = << >> THEN << >> ELSE AppendsOf(k, Head(lg)) \o Replay(k, Tail(lg))

\* C7: the step list is the log of appends in call order: one step per chain
\* call, and per Clean/Replace execute or function call a collapse step if
\* asked for, then a lowercase step if asked for; nothing else ever changes it.
C7_StepListIsAppendLog ==
  /\ f = Replay(kind, log)
  /\ Len(f) = Cardinality({ i \in DOMAIN log : log[i].call \in ChainCalls })
              + (IF IsText
                 THEN Cardinality({ i \in DOMAIN log : log[i].call \in {"execute", "function"} /\ log[i].ws })
                      + Cardinality({ i \in DOMAIN log : log[i].call \in {"execute", "function"} /\ log[i].lo })
                 ELSE 0)
  /\ res.call \in ChainCalls => res.out = Ok("self")

C7_Witness ==
  /\ IsText
  /\ Len(log) = 3
  /\ log[1].call = "execute" /\ log[1].ws /\ ~log[1].lo
  /\ log[2].call = "hashtag"
  /\ log[3].call = "execute" /\ log[3].ws /\ ~log[3].lo
  /\ Returned
  /\ Len(f) = 3
  /\ f[1] = CollapseStep /\ f[3] = CollapseStep

Normalized(s) ==
  /\ s # << >> => (s[1] # SP /\ s[Len(s)] # SP)
  /\ \A i \in DOMAIN s : s[i] \notin SpaceChars \ {SP}
  /\ \A i \in DOMAIN s : i < Len(s) => ~(s[i] = SP /\ s[i + 1] = SP)

C9_CompiledFunctionPure ==
  [][(IsText /\ res'.call = "_func" /\ log' = log)
     => /\ f' = f
        /\ (lastFunc.call = "_func" /\ lastFunc.arg = res'.arg)
           => SameOutcome(res'.out, lastFunc.out)]_vars

BadStep(st) == st.op = "regexp" /\ ~PatValid(st.pat)
Finalizes == {"execute", "batch_execute", "_func"}

\* C10: regexp(bad_pattern) succeeds, appends its step and returns the
\* builder; the pattern error is raised only by a finalize call that applies
\* the step, and that call then returns no result at all.
C10_BadPatternRaisesAtFinalize ==
  /\ (res.call = "regexp")
     => (res.out = Ok("self") /\ f # << >> /\ f[Len(f)].op = "regexp" /\ f[Len(f)].pat = LastEntry.pat)
  /\ (res.out.err = "re.error")
     => (res.call \in Finalizes /\ \E i \in DOMAIN f : BadStep(f[i]))
  /\ (res.call \in Finalizes /\ res.arg # << >> /\ \E i \in DOMAIN f : BadStep(f[i]))
     => res.out = Raise("re.error")

C10_Witness ==
  /\ res.call \in Finalizes
  /\ res.out = Raise("re.error")
  /\ Len(f) >= 2
  /\ ~BadStep(f[1])
  /\ \E i \in DOMAIN f : BadStep(f[i])

(* ------------------------------------------------------------------------ *)
(* Pattern tables: what the properties compare the steps with               *)
(* ------------------------------------------------------------------------ *)
\* the entries of the table whose key occurs in s at position i
EntriesAt(table, s, i) == { n \in DOMAIN table : HasPrefix(s, i, table[n].key) }

\* among them, the entry with the longest key
LongestAt(table, s, i) ==
  CHOOSE n \in EntriesAt(table, s, i) :
    \A m \in EntriesAt(table, s, i) : Len(table[m].key) <= Len(table[n].key)

\* the leftmost position at or after i where a key of the table occurs, 0 if none
FirstAny(table, s, i) ==
  LET P == { j \in i..Len(s) : EntriesAt(table, s, j) # {} }
  IN IF P = {} THEN 0 ELSE Least(P)

\* one scan of s from left to right, from position i: every occurrence of a
\* key, the longest key first, becomes a space, or with padded its label
\* between two spaces
RECURSIVE ScanSub(_, _, _, _)
ScanSub(table, s, i, padded) ==
  LET j == FirstAny(table, s, i)
      e == table[LongestAt(table, s, j)]
  IN IF j = 0 THEN SubSeq(s, i, Len(s))
     ELSE SubSeq(s, i, j - 1)
          \o (IF padded THEN << SP >> \o e.label \o << SP >> ELSE << SP >>)
          \o ScanSub(table, s, j + Len(e.key), padded)

Occurs(key, s) == FirstLit(s, key, 1) # 0

\* the number of words of s that are w
WordCount(s, w) == Cardinality({ i \in DOMAIN Split(s) : Split(s)[i] = w })

EmoticonStep == Step("emoticon", "", << >>)
EmojiStep == Step("emoji", "", << >>)

WORD1 == << "w", "o", "r", "d", "1" >>
WORD2 == << "w", "o", "r", "d", "2" >>

\* C11: clean().emoticon().execute(text) returns the words of the text that
\* the emoticons and the whitespace separate, joined by single spaces: no
\* emoticon is left, nothing is glued together, and the ends are trimmed
\* (':)word1:Dword2:)' gives 'word1 word2').
C11_CleanEmoticon ==
  (/\ kind = "clean"
   /\ res.call = "execute"
   /\ f = << EmoticonStep, CollapseStep >>)
  => /\ Returned
     /\ \A n \in DOMAIN EMOTICONS : ~Occurs(EMOTICONS[n].key, res.out.val.s)
     /\ Normalized(res.out.val.s)
     /\ Split(res.out.val.s) = Split(ScanSub(EMOTICONS, res.arg[1].s, 1, FALSE))
     /\ res.arg[1].s = T_EMO_WORDS => res.out.val.s = WORD1 \o << SP >> \o WORD2

C11_Witness ==
  /\ kind = "clean"
  /\ res.call = "execute"
  /\ f = << EmoticonStep, CollapseStep >>
  /\ res.arg[1].s = T_EMO_WORDS
  /\ res.out = Ok(StrVal(WORD1 \o << SP >> \o WORD2))

\* C12: replace().emoticon().execute(text) returns the text with every
\* emoticon replaced by its label as a word of its own: the words are those
\* of the text with ' label ' in place of each emoticon, joined by single
\* spaces, the ends trimmed.
C12_ReplaceEmoticon ==
  (/\ kind = "replace"
   /\ res.call = "execute"
   /\ f = << EmoticonStep, CollapseStep >>)
  => /\ Returned
     /\ Normalized(res.out.val.s)
     /\ res.out.val.s = Join(Split(ScanSub(EMOTICONS, res.arg[1].s, 1, TRUE)))
     /\ \A n \in DOMAIN EMOTICONS :
          Occurs(EMOTICONS[n].label, res.out.val.s)
          => WordCount(res.out.val.s, EMOTICONS[n].label) > 0
     /\ res.arg[1].s = T_EMO_WORDS
        => res.out.val.s = TOKEN_EMOTICON_HAPPY \o << SP >> \o WORD1 \o << SP >>
                           \o TOKEN_EMOTICON_LAUGHING \o << SP >> \o WORD2 \o << SP >>
                           \o TOKEN_EMOTICON_HAPPY

C12_Witness ==
  /\ kind = "replace"
  /\ res.call = "execute"
  /\ f = << EmoticonStep, CollapseStep >>
  /\ res.arg[1].s = T_EMO_WORDS
  /\ Returned
  /\ Split(res.out.val.s) =
       << TOKEN_EMOTICON_HAPPY, WORD1, TOKEN_EMOTICON_LAUGHING, WORD2, TOKEN_EMOTICON_HAPPY >>

TableOf(op) == IF op = "emoji" THEN EMOJI ELSE EMOTICONS

\* the text a collect emoji/emoticon step counts in
CountedText(st, s) ==
  IF st.op = "emoji" THEN s
  ELSE Masked("ignore_emoji" \in Range(st.rep), "ignore_url" \in Range(st.rep), s)

\* the occurrences in s of all the keys of the table that map to label
LabelTotal(table, s, label) ==
  SumSeq([n \in DOMAIN table |->
            IF table[n].label = label THEN CountLit(s, table[n].key, 1) ELSE 0])

LabelTotals(table, s) ==
  [label \in { table[n].label : n \in { m \in DOMAIN table : Occurs(table[m].key, s) } } |->
     LabelTotal(table, s, label)]

\* C13: under collect execute, the entry of 'emoji' / 'emoticon' maps every
\* label that occurs in the (masked) text to the total number of
\* occurrences of the keys with that label, and holds no other label.
C13_CountsByLabel ==
  (kind = "collect" /\ res.call = "execute" /\ Returned)
  => \A j \in DOMAIN f :
       (f[j].op \in {"emoji", "emoticon"} /\ IsLastWith(f, j))
       => res.out.val[f[j].op] = LabelTotals(TableOf(f[j].op), CountedText(f[j], res.arg[1].s))

\* C16: a Clean or Replace builder with one emoji or emoticon step returns
\* what one left-to-right scan returns that takes the longest key at every
\* position: an occurrence of a key declared later, of which a key declared
\* earlier is a prefix, becomes that later key's blank or label, and nothing
\* of it is left over.
C16_LongerKeyConsumed ==
  (/\ IsText
   /\ res.call = "execute"
   /\ Len(log) = 2
   /\ Len(f) >= 1
   /\ f[1].op \in {"emoji", "emoticon"})
  => /\ Returned
     /\ res.out.val.s =
          FuncOut(kind, Tail(f),
                  StrVal(ScanSub(TableOf(f[1].op), res.arg[1].s, 1, kind = "replace"))).val.s
     /\ (kind = "replace" /\ ~LastEntry.lo)
        => \A a, b \in DOMAIN TableOf(f[1].op) :
             LET A == TableOf(f[1].op)[a]
                 B == TableOf(f[1].op)[b]
             IN (a < b /\ Len(A.key) < Len(B.key) /\ HasPrefix(B.key, 1, A.key))
                => /\ WordCount(res.out.val.s, B.label) = CountLit(res.arg[1].s, B.key, 1)
                   /\ Occurs(SubSeq(B.key, Len(A.key) + 1, Len(B.key)), res.out.val.s)
                      => Occurs(SubSeq(B.key, Len(A.key) + 1, Len(B.key)),
                                ScanSub(TableOf(f[1].op), res.arg[1].s, 1, FALSE))

C16_Witness ==
  /\ kind = "replace"
  /\ res.call = "execute"
  /\ f = << EmoticonStep >>
  /\ res.arg[1].s = T_EMO_MIX
  /\ Returned
  /\ WordCount(res.out.val.s, TOKEN_EMOTICON_VERY_HAPPY) = 1
  /\ WordCount(res.out.val.s, TOKEN_EMOTICON_HAPPY) = 3

(* ------------------------------------------------------------------------ *)
(* The order of the url and hashtag steps                                   *)
(* ------------------------------------------------------------------------ *)
\* the spans << first, last >> of the matches re.sub and re.findall find
RECURSIVE Spans(_, _, _)
Spans(op, s, i) ==
  LET j == FirstMatch(op, "", s, i)
  IN IF j = 0 THEN {}
     ELSE { << j, j + MatchLen(op, "", s, j) - 1 >> } \cup Spans(op, s, j + MatchLen(op, "", s, j))

\* some URL match and some hashtag match share a character
Overlap(s) ==
  \E u \in Spans("url", s, 1), h \in Spans("hashtag", s, 1) : u[1] <= h[2] /\ h[1] <= u[2]

\* some URL match contains a hashtag match
UrlHoldsTag(s) ==
  \E u \in Spans("url", s, 1), h \in Spans("hashtag", s, 1) : u[1] <= h[1] /\ h[2] <= u[2]

\* every hashtag match is a whole word: whitespace or an end of the text on
\* both sides
TagsAreWords(s) ==
  \A h \in Spans("hashtag", s, 1) :
    /\ h[1] = 1 \/ s[h[1] - 1] \in SpaceChars
    /\ h[2] = Len(s) \/ s[h[2] + 1] \in SpaceChars

UrlStep == Step("url", "", << >>)
HashtagStep == Step("hashtag", "", << >>)
UrlFirst == << UrlStep, HashtagStep, CollapseStep >>
TagFirst == << HashtagStep, UrlStep, CollapseStep >>
Swapped(fs) == IF fs = UrlFirst THEN TagFirst ELSE UrlFirst

OrderCase ==
  /\ kind = "clean"
  /\ res.call = "execute"
  /\ f \in { UrlFirst, TagFirst }

\* C14, as claimed: the two orders return the same output only if no URL
\* match overlaps a hashtag match, and different outputs whenever a URL
\* match contains a hashtag match.
C14_OverlapDiffers ==
  OrderCase
  => /\ (RunClean(Swapped(f), res.arg[1]) = res.out) => ~Overlap(res.arg[1].s)
     /\ UrlHoldsTag(res.arg[1].s) => RunClean(Swapped(f), res.arg[1]) # res.out

\* C14, amended: the two orders return the same output on every input whose
\* hashtag matches are whole words; of the inputs in which a URL match
\* contains a hashtag match, 'http://#b c' gives 'c' with url first and
\* 'http:// c' with hashtag first, and 'http://a#b c' gives 'c' in both orders.
C14_OrderOfUrlAndHashtag ==
  OrderCase
  => /\ Returned
     /\ TagsAreWords(res.arg[1].s) => RunClean(Swapped(f), res.arg[1]) = res.out
     /\ res.arg[1].s = T_URL_ONLY_TAG
        => res.out.val.s = (IF f = UrlFirst THEN << "c" >> ELSE HTTP \o << SP, "c" >>)
     /\ res.arg[1].s = T_URL_TAG => res.out.val.s = << "c" >>

C14_Witness ==
  /\ OrderCase
  /\ f = TagFirst
  /\ res.arg[1].s = T_URL_ONLY_TAG
  /\ UrlHoldsTag(res.arg[1].s)
  /\ res.out = Ok(StrVal(HTTP \o << SP, "c" >>))
  /\ RunClean(UrlFirst, res.arg[1]) = Ok(StrVal(<< "c" >>))

\* the text between the angle brackets of the html match with span h
InnerText(s, h) == SubSeq(s, h[1] + 1, h[2] - 1)

\* C15: a compiled clean function with an html step removes the tags
\* entirely: its output holds no tag, and holds the inner text of a tag of
\* the input only where the input holds that text outside its tags too (the
\* documented function returns 'Why Alex33 is so funny Check here').
C15_HtmlDeletesTags ==
  (/\ kind = "clean"
   /\ res.call = "_func"
   /\ Returned
   /\ \E j \in DOMAIN f : f[j].op = "html")
  => /\ Spans("html", res.out.val.s, 1) = {}
     /\ \A h \in Spans("html", res.arg[1].s, 1) :
          (/\ InnerText(res.arg[1].s, h) # << >>
           /\ ~Occurs(InnerText(res.arg[1].s, h), ReSub("html", "", << >>, res.arg[1].s, 1)))
          => ~Occurs(InnerText(res.arg[1].s, h), res.out.val.s)

(* ------------------------------------------------------------------------ *)
(* The punctuation steps                                                    *)
(* ------------------------------------------------------------------------ *)
IsPunct(c) == c \notin WordChars /\ c \notin SpaceChars

\* the length of the run of characters neither word nor whitespace at position i
RECURSIVE PunctRun(_, _)
PunctRun(s, i) == IF i > Len(s) \/ ~IsPunct(s[i]) THEN 0 ELSE 1 + PunctRun(s, i + 1)

\* s with every maximal run of such characters replaced by token, from position i
RECURSIVE RunsReplaced(_, _, _)
RunsReplaced(s, token, i) ==
  LET P == { j \in i..Len(s) : IsPunct(s[j]) }
  IN IF P = {} THEN SubSeq(s, i, Len(s))
     ELSE SubSeq(s, i, Least(P) - 1) \o token \o RunsReplaced(s, token, Least(P) + PunctRun(s, Least(P)))

\* s with every such character replaced by the one character c
EachReplaced(s, c) == [i \in DOMAIN s |-> IF IsPunct(s[i]) THEN c ELSE s[i]]

\* out is s without its characters of the set chars, in the same order
IsWithout(out, s, chars) ==
  LET kept == { i \in DOMAIN s : s[i] \notin chars }
  IN /\ Len(out) = Cardinality(kept)
     /\ \A i \in kept : out[Cardinality({ j \in kept : j <= i })] = s[i]

TOKEN_PUNCTUATION ==
  << "T", "O", "K", "E", "N", "_", "P", "U", "N", "C", "T", "U", "A", "T", "I", "O", "N" >>

\* a builder with the one step punctuation(), executed without implicit steps
PunctuationCase(k) ==
  /\ kind = k
  /\ res.call = "execute"
  /\ Len(f) = 1
  /\ f[1].op = "punctuation"

ChainOnly(k, lg) == Replay(k, SelectSeq(lg, LAMBDA e : e.call \in ChainCalls))

\* C18: execute on a Clean or Replace builder returns what a fresh builder
\* returns that was given the same chain calls and then this execute call
\* with its flags, whatever execute and function calls came before.
C18_ExecuteHistoryIndependent ==
  (IsText /\ res.call = "execute")
  => SameOutcome(res.out,
                 FuncOut(kind, ChainOnly(kind, log) \o Implicit(LastEntry.ws, LastEntry.lo),
                         res.arg[1]))

\* C19: an execute call on a Clean or Replace builder that directly follows
\* an execute call with the same text and the same flags returns what that
\* call returned.
C19_RepeatedExecute ==
  [][(/\ IsText
      /\ res.call = "execute"
      /\ res'.call = "execute"
      /\ res'.arg = res.arg
      /\ log' = Append(log, LastEntry))
     => SameOutcome(res'.out, res.out)]_vars

C19_Witness ==
  /\ IsText
  /\ Len(log) = 3
  /\ log[1].call = "hashtag"
  /\ log[2] = LogEntry("execute", "", TRUE, TRUE)
  /\ log[3] = log[2]
  /\ res.call = "execute"
  /\ res.arg[1].s = T_WS
  /\ f[2] = CollapseStep /\ f[3] = LowerStep /\ f[4] = CollapseStep /\ f[5] = LowerStep
  /\ res.out = Ok(StrVal(<< "a", SP, "a" >>))

\* C20: a Clean or Replace execute call that raises has appended its
\* implicit steps all the same, so with a flag set the step list is longer
\* after the call; a collect execute or batch_execute call that raises
\* leaves the step list as it was.
C20_FailedFinalizeKeepsSteps ==
  [][(res'.call \in {"execute", "batch_execute"} /\ log' # log /\ res'.out.st = "raise")
     => IF IsText
        THEN /\ f' = f \o Implicit(log'[Len(log')].ws, log'[Len(log')].lo)
             /\ (log'[Len(log')].ws \/ log'[Len(log')].lo) => Len(f') > Len(f)
        ELSE f' = f]_vars

C20_Witness ==
  /\ IsText
  /\ res.call = "execute"
  /\ res.out = Raise("re.error")
  /\ LastEntry.ws /\ LastEntry.lo
  /\ Len(log) = 2
  /\ f = << f[1], CollapseStep, LowerStep >>
  /\ BadStep(f[1])

(* ------------------------------------------------------------------------ *)
(* Steps of one label under collect execute                                 *)
(* ------------------------------------------------------------------------ *)
\* the keys batch_execute([v]) reports under tag
BatchKeys(fs, v, tag) == DOMAIN RunBatch(fs, << v >>, << >>).val[tag]

\* C21: under collect execute, with two steps of one label, the label maps
\* to the counter of the last such step alone: a match only an earlier
\* step found is absent, a last step that found nothing leaves the empty
\* map, and every key of execute(s) is a key of batch_execute([s]), which
\* also reports the keys execute(s) omits.
C21_ExecuteReplacesWholesale ==
  (kind = "collect" /\ res.call = "execute" /\ Returned)
  => \A i, j \in DOMAIN f :
       (i < j /\ LabelOf(f[i]) = LabelOf(f[j]) /\ IsLastWith(f, j))
       => LET v == res.arg[1]
              tag == LabelOf(f[j])
              early == CounterOf(f[i], v)
              late == CounterOf(f[j], v)
          IN /\ tag \in DOMAIN res.out.val
             /\ res.out.val[tag] = late
             /\ \A k \in DOMAIN early \ DOMAIN late : k \notin DOMAIN res.out.val[tag]
             /\ late = << >> => res.out.val[tag] = << >>
             /\ DOMAIN res.out.val[tag] \subseteq BatchKeys(f, v, tag)
             /\ DOMAIN early \ DOMAIN late \subseteq BatchKeys(f, v, tag)

\* regexp('[ab]').regexp('a').execute('http://#b c'): the first step found
\* 'b', the second nothing, so execute maps regexp to the empty map while
\* batch_execute reports 'b'
C21_Witness ==
  /\ kind = "collect"
  /\ res.call = "execute"
  /\ Returned
  /\ res.arg[1].s = T_URL_ONLY_TAG
  /\ Len(f) = 2
  /\ f[1].op = "regexp" /\ f[1].pat = "[ab]"
  /\ f[2].op = "regexp" /\ f[2].pat = "a"
  /\ DOMAIN CounterOf(f[1], res.arg[1]) = { << "b" >> }
  /\ res.out.val = [tag \in {"regexp"} |-> << >>]
  /\ BatchKeys(f, res.arg[1], "regexp") = { << "b" >> }

====
